---- MODULE Spec2Model ----
(***************************************************************************)
(* A model of ChessVar.py: a chess variant with two fairy pieces (Falcon   *)
(* and Hunter).  The game object (board, game state, players, player to    *)
(* move) is the state; make_move and enter_fairy_piece are the operations. *)
(* Python values are modelled as strings where a method returns more than  *)
(* two values ("True", "False", "pawn_capture", "None", "raise").          *)
(***************************************************************************)
EXTENDS Integers, Sequences, FiniteSets, TLC

VARIABLES board, game_state, captured, fairy_pieces, fairy_played_count,
          curr_player, last, moves

gvars == <<board, game_state, captured, fairy_pieces, fairy_played_count, curr_player>>
vars == <<board, game_state, captured, fairy_pieces, fairy_played_count,
          curr_player, last, moves>>

(***************************************************************************)
(* Bounds of the model.                                                    *)
(***************************************************************************)
\* the number of successful calls (moves and entries) explored in one game
MaxMoves == 9

\* the number of successful calls explored in a game of the line pieces
MaxLineMoves == 6

(***************************************************************************)
(* Pieces, squares, players.                                               *)
(***************************************************************************)
Colors == {"white", "black"}

Other(color) == IF color = "white" THEN "black" ELSE "white"

\* Square._piece = None
None == [type |-> "None", color |-> "None"]

\* Piece subclasses: Pawn('white'), Knight('black'), ...
Piece(type, color) == [type |-> type, color |-> color]

Rows == 0 .. 7

Squares == Rows \X Rows

\* the lower-case letter each subclass's __init__ stores in _symbol
symbol(type) ==
    CASE type = "Pawn" -> "p"
      [] type = "Rook" -> "r"
      [] type = "Knight" -> "n"
      [] type = "Bishop" -> "b"
      [] type = "Queen" -> "q"
      [] type = "King" -> "k"
      [] type = "Falcon" -> "f"
      [] type = "Hunter" -> "h"

\* str.upper() and str.lower() on the one-letter symbols the program uses
upper(s) ==
    CASE s = "p" -> "P" [] s = "r" -> "R" [] s = "n" -> "N" [] s = "b" -> "B"
      [] s = "q" -> "Q" [] s = "k" -> "K" [] s = "f" -> "F" [] s = "h" -> "H"
      [] OTHER -> s

lower(s) ==
    CASE s = "P" -> "p" [] s = "R" -> "r" [] s = "N" -> "n" [] s = "B" -> "b"
      [] s = "Q" -> "q" [] s = "K" -> "k" [] s = "F" -> "f" [] s = "H" -> "h"
      [] OTHER -> s

\* Piece.get_symbol: upper case for a white piece, lower case otherwise
get_symbol(piece) ==
    IF piece.color = "white" THEN upper(symbol(piece.type)) ELSE symbol(piece.type)

abs(x) == IF x < 0 THEN -x ELSE x

\* Board.__init__: the standard initial placement, white on rows 0-1
BackRank == <<"Rook", "Knight", "Bishop", "Queen", "King", "Bishop", "Knight", "Rook">>

InitBoard ==
    [sq \in Squares |->
        CASE sq[1] = 0 -> Piece(BackRank[sq[2] + 1], "white")
          [] sq[1] = 1 -> Piece("Pawn", "white")
          [] sq[1] = 6 -> Piece("Pawn", "black")
          [] sq[1] = 7 -> Piece(BackRank[sq[2] + 1], "black")
          [] OTHER -> None]

\* Player.__init__
InitFairyPieces == <<"h", "f">>

\* col_dict of make_move and enter_fairy_piece
col_dict == [l \in {"a", "b", "c", "d", "e", "f", "g", "h"} |->
    CASE l = "a" -> 0 [] l = "b" -> 1 [] l = "c" -> 2 [] l = "d" -> 3
      [] l = "e" -> 4 [] l = "f" -> 5 [] l = "g" -> 6 [] l = "h" -> 7]

\* Python list indexing of the 8 rows: -8..-1 count from the end, else IndexError
IndexOk(i) == i >= -8 /\ i <= 7

ListIndex(i) == IF i < 0 THEN i + 8 ELSE i

\* Board.get_square(row, col): the square object, named by its own (_row, _col)
get_square(row, col) == <<ListIndex(row), ListIndex(col)>>

(***************************************************************************)
(* Piece.valid_move of each subclass.  from_sq and to_sq are squares (the  *)
(* row and column a Square object stores); b is the board.                 *)
(***************************************************************************)
\* Pawn.valid_move line 83: a Piece (or None) compared with a colour string
PieceEqualsColor(piece, color) == FALSE

\* Pawn.valid_move with the two-step move let in from any row
Pawn_valid_move_two_step_anywhere(color, from_sq, to_sq, b) ==
    LET direction == IF color = "black" THEN -1 ELSE 1
    IN  IF from_sq[2] = to_sq[2]
        THEN IF to_sq[1] = from_sq[1] + direction \/ to_sq[1] = from_sq[1] + 2 * direction
             THEN "True" ELSE "False"
        ELSE IF abs(to_sq[2] - from_sq[2]) = 1 /\ to_sq[1] = from_sq[1] + direction
        THEN IF b[to_sq] = None THEN "False" ELSE "pawn_capture"
        ELSE "False"

Pawn_valid_move(color, from_sq, to_sq, b) ==
    LET from_row == from_sq[1]
        from_col == from_sq[2]
        to_row == to_sq[1]
        to_col == to_sq[2]
        direction == IF color = "black" THEN -1 ELSE 1
        start_row == IF color = "black" THEN 6 ELSE 1
    IN  IF from_col = to_col
        THEN IF to_row = from_row + direction THEN "True"
             ELSE IF from_row = start_row /\ to_row = from_row + 2 * direction THEN "True"
             ELSE "False"
        ELSE IF abs(to_col - from_col) = 1 /\ to_row = from_row + direction
        THEN IF PieceEqualsColor(b[to_sq], color) THEN "False"
             ELSE IF b[to_sq] = None THEN "False"
             ELSE "pawn_capture"
        ELSE "False"

Rook_valid_move(from_sq, to_sq) ==
    LET from_row == from_sq[1]
        from_col == from_sq[2]
        to_row == to_sq[1]
        to_col == to_sq[2]
    IN  IF from_row = to_row /\ from_col # to_col THEN "True"
        ELSE IF from_row # to_row /\ from_col = to_col THEN "True"
        ELSE "False"

Knight_valid_move(from_sq, to_sq) ==
    LET row_diff == abs(to_sq[1] - from_sq[1])
        col_diff == abs(to_sq[2] - from_sq[2])
    IN  IF (row_diff = 2 /\ col_diff = 1) \/ (row_diff = 1 /\ col_diff = 2)
        THEN "True" ELSE "False"

Bishop_valid_move(from_sq, to_sq) ==
    LET row_diff == abs(to_sq[1] - from_sq[1])
        col_diff == abs(to_sq[2] - from_sq[2])
    IN  IF row_diff = col_diff THEN "True" ELSE "False"

\* Queen.valid_move without the diagonal case
Queen_valid_move_without_diagonal(from_sq, to_sq) ==
    IF from_sq[1] = to_sq[1] /\ from_sq[2] # to_sq[2] THEN "True"
    ELSE IF from_sq[1] # to_sq[1] /\ from_sq[2] = to_sq[2] THEN "True"
    ELSE "False"

Queen_valid_move(from_sq, to_sq) ==
    LET from_row == from_sq[1]
        from_col == from_sq[2]
        to_row == to_sq[1]
        to_col == to_sq[2]
        row_diff == abs(to_row - from_row)
        col_diff == abs(to_col - from_col)
    IN  IF row_diff = col_diff THEN "True"
        ELSE IF from_row = to_row /\ from_col # to_col THEN "True"
        ELSE IF from_row # to_row /\ from_col = to_col THEN "True"
        ELSE "False"

King_valid_move(from_sq, to_sq) ==
    LET row_diff == abs(to_sq[1] - from_sq[1])
        col_diff == abs(to_sq[2] - from_sq[2])
    IN  IF row_diff <= 1 /\ col_diff <= 1 THEN "True" ELSE "False"

Falcon_valid_move(color, from_sq, to_sq) ==
    LET from_row == from_sq[1]
        from_col == from_sq[2]
        to_row == to_sq[1]
        to_col == to_sq[2]
        row_diff == to_row - from_row
        col_diff == to_col - from_col
    IN  IF color = "white"
        THEN IF row_diff >= 0
             THEN IF abs(row_diff) = abs(col_diff) THEN "True" ELSE "False"
             ELSE IF from_row = to_row /\ from_col # to_col THEN "True" ELSE "False"
        ELSE IF row_diff <= 0
             THEN IF abs(row_diff) = abs(col_diff) THEN "True" ELSE "False"
             ELSE IF from_col = to_col /\ from_row # to_row THEN "True" ELSE "False"

Hunter_valid_move(color, from_sq, to_sq) ==
    LET from_row == from_sq[1]
        from_col == from_sq[2]
        to_row == to_sq[1]
        to_col == to_sq[2]
        row_diff == to_row - from_row
        col_diff == to_col - from_col
    IN  IF color = "black"
        THEN IF row_diff >= 0
             THEN IF abs(row_diff) = abs(col_diff) THEN "True" ELSE "False"
             ELSE IF from_row = to_row /\ from_col # to_col THEN "True" ELSE "False"
        ELSE IF row_diff <= 0
             THEN IF abs(row_diff) = abs(col_diff) THEN "True" ELSE "False"
             ELSE IF from_col = to_col /\ from_row # to_row THEN "True" ELSE "False"

\* moving_piece.valid_move(from_square, to_square): dispatch on the subclass
valid_move(piece, from_sq, to_sq, b) ==
    CASE piece.type = "Pawn" -> Pawn_valid_move(piece.color, from_sq, to_sq, b)
      [] piece.type = "Rook" -> Rook_valid_move(from_sq, to_sq)
      [] piece.type = "Knight" -> Knight_valid_move(from_sq, to_sq)
      [] piece.type = "Bishop" -> Bishop_valid_move(from_sq, to_sq)
      [] piece.type = "Queen" -> Queen_valid_move(from_sq, to_sq)
      [] piece.type = "King" -> King_valid_move(from_sq, to_sq)
      [] piece.type = "Falcon" -> Falcon_valid_move(piece.color, from_sq, to_sq)
      [] piece.type = "Hunter" -> Hunter_valid_move(piece.color, from_sq, to_sq)

(***************************************************************************)
(* The game object.  A value g holds the fields of one ChessVar instance   *)
(* and of its two Player objects; the methods map g to the g they leave.   *)
(***************************************************************************)
Game == [board |-> board, game_state |-> game_state, captured |-> captured,
         fairy_pieces |-> fairy_pieces, fairy_played_count |-> fairy_played_count,
         curr_player |-> curr_player]

\* ChessVar.__init__ with Board.__init__ and Player.__init__
NewGame == [board |-> InitBoard, game_state |-> "UNFINISHED",
            captured |-> [c \in Colors |-> <<>>],
            fairy_pieces |-> [c \in Colors |-> InitFairyPieces],
            fairy_played_count |-> [c \in Colors |-> 0],
            curr_player |-> "white"]

\* change_game_state with the two colours exchanged
change_game_state_swapped(g) ==
    IF g.curr_player = "white"
    THEN [g EXCEPT !.game_state = "BLACK_WON"]
    ELSE [g EXCEPT !.game_state = "WHITE_WON"]

\* ChessVar.change_game_state
change_game_state(g) ==
    IF g.curr_player = "white"
    THEN [g EXCEPT !.game_state = "WHITE_WON"]
    ELSE [g EXCEPT !.game_state = "BLACK_WON"]

\* change_turn that never gives the turn back to white
change_turn_to_black(g) == [g EXCEPT !.curr_player = "black"]

\* ChessVar.change_turn
change_turn(g) ==
    IF g.curr_player = "white"
    THEN [g EXCEPT !.curr_player = "black"]
    ELSE [g EXCEPT !.curr_player = "white"]

\* the while loop of collision_check, from the square (curr_row, curr_col) on
RECURSIVE collision_loop(_, _, _, _, _, _, _)
collision_loop(b, curr_row, curr_col, to_row, to_col, row_direction, col_direction) ==
    IF ~(curr_row # to_row \/ curr_col # to_col) THEN "None"
    ELSE IF ~IndexOk(curr_row) \/ ~IndexOk(curr_col) THEN "raise"
    ELSE IF b[get_square(curr_row, curr_col)] # None THEN "False"
    ELSE collision_loop(b, curr_row + row_direction, curr_col + col_direction,
                        to_row, to_col, row_direction, col_direction)

\* collision_check that looks at no square
collision_check_skipped(b, to_row, to_col, from_row, from_col) == "None"

\* ChessVar.collision_check: "False" on a collision; falls off the end (None) otherwise
collision_check(b, to_row, to_col, from_row, from_col) ==
    LET row_direction == IF to_row = from_row THEN 0
                         ELSE IF to_row > from_row THEN 1 ELSE -1
        col_direction == IF to_col = from_col THEN 0
                         ELSE IF to_col > from_col THEN 1 ELSE -1
    IN  collision_loop(b, from_row + row_direction, from_col + col_direction,
                       to_row, to_col, row_direction, col_direction)

\* move_process that does not clear the source square
move_process_keeps_source(g, moving_piece, from_square, to_square) ==
    change_turn([g EXCEPT !.board[to_square] = moving_piece])

\* ChessVar.move_process: place at the destination, clear the source, change turn
move_process(g, moving_piece, from_square, to_square) ==
    LET placed == [g.board EXCEPT ![to_square] = moving_piece]
        removed == [placed EXCEPT ![from_square] = None]
    IN  change_turn([g EXCEPT !.board = removed])

\* capture_piece that does not keep the captured piece
capture_piece_drops_piece(g, square) ==
    LET g1 == IF g.board[square].type = "King" THEN change_game_state(g) ELSE g
    IN  [g1 EXCEPT !.board[square] = None]

\* capture_piece that leaves the game state alone when the piece is a king
capture_piece_keeps_state(g, square) ==
    [g EXCEPT !.captured[g.curr_player] = Append(@, g.board[square]),
              !.board[square] = None]

\* ChessVar.capture_piece: a captured king changes the game state; the piece goes to
\* the current player's captured list and leaves its square
capture_piece(g, square) ==
    LET cap_piece == g.board[square]
        g1 == IF cap_piece.type = "King" THEN change_game_state(g) ELSE g
    IN  [g1 EXCEPT !.captured[g.curr_player] = Append(@, cap_piece),
                   !.board[square] = None]

\* make_move line 683: the bound method get_color (not called) compared with a string
GetColorMethodDiffers(to_piece, from_piece) == TRUE

\* the knight branch with the collision check of the other pieces before it
KnightBranch_with_collision_check(g, moving_piece, from_square, to_square) ==
    LET check == collision_check(g.board, to_square[1], to_square[2],
                                 from_square[1], from_square[2])
    IN  IF check = "False" THEN [ret |-> "False", g |-> g]
        ELSE IF g.board[to_square] = None
        THEN [ret |-> "True", g |-> move_process(g, moving_piece, from_square, to_square)]
        ELSE [ret |-> "True",
              g |-> move_process(capture_piece(g, to_square), moving_piece, from_square, to_square)]

\* make_move lines 676-688
KnightBranch(g, moving_piece, from_square, to_square) ==
    IF g.board[to_square] = None
    THEN [ret |-> "True", g |-> move_process(g, moving_piece, from_square, to_square)]
    ELSE IF GetColorMethodDiffers(g.board[to_square], g.board[from_square])
    THEN [ret |-> "True",
          g |-> move_process(capture_piece(g, to_square), moving_piece, from_square, to_square)]
    ELSE [ret |-> "False", g |-> g]

\* the pawn branch without the test that a capturing move is diagonal
PawnBranch_captures_straight(g, moving_piece, from_square, to_square, to_row, to_col, from_row, from_col) ==
    LET check == collision_check(g.board, to_row, to_col, from_row, from_col)
    IN  IF check = "raise" THEN [ret |-> "raise", g |-> g]
        ELSE IF check = "False" THEN [ret |-> "False", g |-> g]
        ELSE IF g.board[to_square] = None
        THEN [ret |-> "True", g |-> move_process(g, moving_piece, from_square, to_square)]
        ELSE IF moving_piece.color # g.board[to_square].color
        THEN [ret |-> "True",
              g |-> move_process(capture_piece(g, to_square), moving_piece, from_square, to_square)]
        ELSE [ret |-> "False", g |-> g]

\* make_move lines 692-706
PawnBranch(g, moving_piece, from_square, to_square, to_row, to_col, from_row, from_col) ==
    LET check == collision_check(g.board, to_row, to_col, from_row, from_col)
    IN  IF check = "raise" THEN [ret |-> "raise", g |-> g]
        ELSE IF check = "False" THEN [ret |-> "False", g |-> g]
        ELSE IF g.board[to_square] = None
        THEN [ret |-> "True", g |-> move_process(g, moving_piece, from_square, to_square)]
        ELSE IF moving_piece.color # g.board[to_square].color
                /\ valid_move(moving_piece, from_square, to_square, g.board) = "pawn_capture"
        THEN [ret |-> "True",
              g |-> move_process(capture_piece(g, to_square), moving_piece, from_square, to_square)]
        ELSE [ret |-> "False", g |-> g]

\* make_move lines 709-722
OtherBranch(g, moving_piece, from_square, to_square, to_row, to_col, from_row, from_col) ==
    LET check == collision_check(g.board, to_row, to_col, from_row, from_col)
    IN  IF check = "raise" THEN [ret |-> "raise", g |-> g]
        ELSE IF check = "False" THEN [ret |-> "False", g |-> g]
        ELSE IF g.board[to_square] = None
        THEN [ret |-> "True", g |-> move_process(g, moving_piece, from_square, to_square)]
        ELSE IF moving_piece.color # g.board[to_square].color
        THEN [ret |-> "True",
              g |-> move_process(capture_piece(g, to_square), moving_piece, from_square, to_square)]
        ELSE [ret |-> "False", g |-> g]

\* the own-piece test without the comparison of colours
NotOwnPiece_empty_only(g, moving_piece) == moving_piece = None

\* make_move lines 663-666: the player is not moving a piece of their own
NotOwnPiece(g, moving_piece) ==
    IF moving_piece = None THEN TRUE
    ELSE IF moving_piece.color # g.curr_player THEN TRUE
    ELSE FALSE

\* make_move line 669: the game has ended
GameEnded(g) == g.game_state # "UNFINISHED"

\* ChessVar.make_move.  A square string is <<letter, digit>>: its first character
\* and the int() of its second.  The result is the value returned ("raise" for an
\* exception) and the game the call leaves.
make_move(g, from_square_str, to_square_str) ==
    IF from_square_str[1] \notin DOMAIN col_dict \/ to_square_str[1] \notin DOMAIN col_dict
    THEN [ret |-> "raise", g |-> g]
    ELSE
    LET from_row == from_square_str[2] - 1
        from_col == col_dict[from_square_str[1]]
        to_row == to_square_str[2] - 1
        to_col == col_dict[to_square_str[1]]
    IN  IF to_row > 7 \/ to_col > 7 \/ to_row < 0 \/ to_col < 0
        THEN [ret |-> "False", g |-> g]
        ELSE IF ~IndexOk(from_row) THEN [ret |-> "raise", g |-> g]
        ELSE
        LET to_square == get_square(to_row, to_col)
            from_square == get_square(from_row, from_col)
            moving_piece == g.board[from_square]
        IN  IF NotOwnPiece(g, moving_piece) THEN [ret |-> "False", g |-> g]
            ELSE IF GameEnded(g) THEN [ret |-> "False", g |-> g]
            ELSE IF valid_move(moving_piece, from_square, to_square, g.board) = "False"
            THEN [ret |-> "False", g |-> g]
            ELSE IF moving_piece.type = "Knight"
            THEN KnightBranch(g, moving_piece, from_square, to_square)
            ELSE IF moving_piece.type = "Pawn"
            THEN PawnBranch(g, moving_piece, from_square, to_square,
                            to_row, to_col, from_row, from_col)
            ELSE OtherBranch(g, moving_piece, from_square, to_square,
                             to_row, to_col, from_row, from_col)

\* list.remove that removes nothing
list_remove_nothing(list, x) == list

\* list.remove(x): the list without the first occurrence of x
list_remove(list, x) ==
    LET i == CHOOSE k \in 1 .. Len(list) :
                 list[k] = x /\ \A j \in 1 .. (k - 1) : list[j] # x
    IN  SubSeq(list, 1, i - 1) \o SubSeq(list, i + 1, Len(list))

\* x in list
in_list(x, list) == \E k \in 1 .. Len(list) : list[k] = x

\* enter_fairy_piece line 800
replace_piece == <<"n", "r", "b", "q">>

\* enter_fairy_piece lines 818-820: white counts in black's captured list
WhiteMajorCount(curr_captured) ==
    Cardinality({k \in 1 .. Len(curr_captured) :
                    in_list(lower(get_symbol(curr_captured[k])), replace_piece)})

\* enter_fairy_piece lines 845-847: black counts in white's captured list
BlackMajorCount(curr_captured) ==
    Cardinality({k \in 1 .. Len(curr_captured) :
                    in_list(get_symbol(curr_captured[k]), replace_piece)})

\* white reads its own captured list: the pieces white captured
WhiteCurrCaptured_own(g) == g.captured["white"]

\* enter_fairy_piece line 815: white reads the list of the pieces black captured
WhiteCurrCaptured(g) == g.captured["black"]

\* enter_fairy_piece line 842: black reads the list of the pieces white captured
BlackCurrCaptured(g) == g.captured["white"]

\* the comparison of lines 822 and 849 with >= for >
EntryAllowed_or_equal(major_pieces_cap_count, fairy_played) ==
    major_pieces_cap_count >= fairy_played

\* enter_fairy_piece lines 822 and 849
EntryAllowed(major_pieces_cap_count, fairy_played) == major_pieces_cap_count > fairy_played

\* the test of line 823 with row 2 let in
WhiteHomeRow_three_rows(square) == square[1] <= 2

\* enter_fairy_piece line 823
WhiteHomeRow(square) == square[1] = 0 \/ square[1] = 1

\* enter_fairy_piece line 850
BlackHomeRow(square) == square[1] = 7 \/ square[1] = 6

\* the entry that does not count the piece entered
EnterPlay_without_count(g, square, piece_type, color, reserve_symbol) ==
    change_turn([g EXCEPT !.board[square] = Piece(piece_type, color),
                          !.fairy_pieces[g.curr_player] = list_remove(@, reserve_symbol)])

\* enter_fairy_piece lines 824-829 and 851-856: the piece enters play
EnterPlay(g, square, piece_type, color, reserve_symbol) ==
    change_turn([g EXCEPT !.board[square] = Piece(piece_type, color),
                          !.fairy_pieces[g.curr_player] = list_remove(@, reserve_symbol),
                          !.fairy_played_count[g.curr_player] = @ + 1])

\* WhiteEntry that takes the kind out of the reserve before it tests the square
WhiteEntry_removes_first(g, piece_symbol, square) ==
    IF piece_symbol # "H" /\ piece_symbol # "F" THEN [ret |-> "False", g |-> g]
    ELSE
    LET piece_type == IF piece_symbol = "H" THEN "Hunter" ELSE "Falcon"
        major_pieces_cap_count == WhiteMajorCount(g.captured["black"])
        taken == [g EXCEPT !.fairy_pieces[g.curr_player] = list_remove(@, lower(piece_symbol))]
    IN  IF major_pieces_cap_count > g.fairy_played_count[g.curr_player]
        THEN IF (square[1] = 0 \/ square[1] = 1) /\ g.board[square] = None
             THEN [ret |-> "True",
                   g |-> change_turn([taken EXCEPT
                             !.board[square] = Piece(piece_type, "white"),
                             !.fairy_played_count[g.curr_player] = @ + 1])]
             ELSE [ret |-> "False", g |-> taken]
        ELSE [ret |-> "False", g |-> g]

\* enter_fairy_piece lines 807-833
WhiteEntry(g, piece_symbol, square) ==
    IF piece_symbol # "H" /\ piece_symbol # "F" THEN [ret |-> "False", g |-> g]
    ELSE
    LET piece_type == IF piece_symbol = "H" THEN "Hunter" ELSE "Falcon"
        major_pieces_cap_count == WhiteMajorCount(WhiteCurrCaptured(g))
    IN  IF EntryAllowed(major_pieces_cap_count, g.fairy_played_count[g.curr_player])
        THEN IF WhiteHomeRow(square) /\ g.board[square] = None
             THEN [ret |-> "True",
                   g |-> EnterPlay(g, square, piece_type, "white", lower(piece_symbol))]
             ELSE [ret |-> "False", g |-> g]
        ELSE [ret |-> "False", g |-> g]

\* enter_fairy_piece lines 835-860
BlackEntry(g, piece_symbol, square) ==
    IF piece_symbol # "h" /\ piece_symbol # "f" THEN [ret |-> "False", g |-> g]
    ELSE
    LET piece_type == IF piece_symbol = "h" THEN "Hunter" ELSE "Falcon"
        major_pieces_cap_count == BlackMajorCount(BlackCurrCaptured(g))
    IN  IF EntryAllowed(major_pieces_cap_count, g.fairy_played_count[g.curr_player])
        THEN IF BlackHomeRow(square) /\ g.board[square] = None
             THEN [ret |-> "True",
                   g |-> EnterPlay(g, square, piece_type, "black", piece_symbol)]
             ELSE [ret |-> "False", g |-> g]
        ELSE [ret |-> "False", g |-> g]

\* ChessVar.enter_fairy_piece
enter_fairy_piece(g, piece_symbol, square_str) ==
    IF square_str[1] \notin DOMAIN col_dict THEN [ret |-> "raise", g |-> g]
    ELSE
    LET sq_row == square_str[2] - 1
        sq_col == col_dict[square_str[1]]
    IN  IF ~IndexOk(sq_row) THEN [ret |-> "raise", g |-> g]
        ELSE
        LET square == get_square(sq_row, sq_col)
        IN  IF ~in_list(lower(piece_symbol), g.fairy_pieces[g.curr_player])
            THEN [ret |-> "False", g |-> g]
            ELSE IF g.curr_player = "white"
            THEN WhiteEntry(g, piece_symbol, square)
            ELSE BlackEntry(g, piece_symbol, square)

(***************************************************************************)
(* The state machine.  One step is one call on the game object; last       *)
(* records the call and what it returned, moves counts the calls that      *)
(* returned True.                                                          *)
(***************************************************************************)
\* square strings: "e2" is Sq("e", 2)
Sq(letter, digit) == <<letter, digit>>

NoSquare == Sq("-", 0)

\* the square strings the calls are made with
MoveSquares ==
    {Sq("g", 1), Sq("f", 3), Sq("g", 5), Sq("e", 4),
     Sq("b", 8), Sq("c", 6), Sq("d", 8), Sq("g", 8), Sq("f", 6), Sq("e", 8)}

EntrySquares == {Sq("g", 1), Sq("f", 3), Sq("g", 8), Sq("b", 8)}

EntrySymbols == {"H", "F", "h", "f"}

Init ==
    /\ board = NewGame.board
    /\ game_state = NewGame.game_state
    /\ captured = NewGame.captured
    /\ fairy_pieces = NewGame.fairy_pieces
    /\ fairy_played_count = NewGame.fairy_played_count
    /\ curr_player = NewGame.curr_player
    /\ last = [op |-> "__init__", symbol |-> "", from |-> NoSquare, to |-> NoSquare,
               ret |-> "None"]
    /\ moves = 0

\* the game object after a call that leaves it as r.g
Leaves(r) ==
    /\ board' = r.g.board
    /\ game_state' = r.g.game_state
    /\ captured' = r.g.captured
    /\ fairy_pieces' = r.g.fairy_pieces
    /\ fairy_played_count' = r.g.fairy_played_count
    /\ curr_player' = r.g.curr_player
    /\ moves' = IF r.ret = "True" THEN moves + 1 ELSE moves

MakeMove(from_square_str, to_square_str) ==
    /\ moves < MaxMoves
    /\ LET r == make_move(Game, from_square_str, to_square_str)
       IN  /\ Leaves(r)
           /\ last' = [op |-> "make_move", symbol |-> "", from |-> from_square_str,
                       to |-> to_square_str, ret |-> r.ret]

EnterFairyPiece(piece_symbol, square_str) ==
    /\ moves < MaxMoves
    /\ LET r == enter_fairy_piece(Game, piece_symbol, square_str)
       IN  /\ Leaves(r)
           /\ last' = [op |-> "enter_fairy_piece", symbol |-> piece_symbol,
                       from |-> NoSquare, to |-> square_str, ret |-> r.ret]

Next ==
    \/ \E from_square_str \in MoveSquares, to_square_str \in MoveSquares :
           MakeMove(from_square_str, to_square_str)
    \/ \E piece_symbol \in EntrySymbols, square_str \in EntrySquares :
           EnterFairyPiece(piece_symbol, square_str)

Spec == Init /\ [][Next]_vars

(***************************************************************************)
(* Games played on the d and e files only, where the pawns meet.           *)
(***************************************************************************)
PawnSquares ==
    {Sq("d", 2), Sq("d", 3), Sq("d", 4), Sq("d", 5), Sq("d", 7),
     Sq("e", 2), Sq("e", 3), Sq("e", 4), Sq("e", 5)}

PawnNext ==
    \E from_square_str \in PawnSquares, to_square_str \in PawnSquares :
        MakeMove(from_square_str, to_square_str)

SpecPawn == Init /\ [][PawnNext]_vars

(***************************************************************************)
(* Calls with square strings whose digit is 0 or 9 or whose letter is i,   *)
(* next to the well-formed strings of the knights' first moves.            *)
(***************************************************************************)
TokenSquares ==
    {Sq("g", 1), Sq("f", 3), Sq("b", 8), Sq("c", 6),
     Sq("b", 0), Sq("c", 0), Sq("g", 9), Sq("i", 3)}

TokenEntrySquares == {Sq("g", 1), Sq("g", 0), Sq("g", 9), Sq("i", 1)}

TokenNext ==
    \/ \E from_square_str \in TokenSquares, to_square_str \in TokenSquares :
           MakeMove(from_square_str, to_square_str)
    \/ \E piece_symbol \in EntrySymbols, square_str \in TokenEntrySquares :
           EnterFairyPiece(piece_symbol, square_str)

SpecTokens == Init /\ [][TokenNext]_vars

(***************************************************************************)
(* Games on the king's side in which white loses the knight of g1 on g5    *)
(* and enters a fairy piece on g1 or g2.                                   *)
(***************************************************************************)
FalconSquares ==
    {Sq("g", 1), Sq("f", 3), Sq("g", 5), Sq("h", 7), Sq("h", 6),
     Sq("g", 2), Sq("g", 3), Sq("g", 8)}

FalconEntrySquares == {Sq("g", 1), Sq("g", 2)}

FalconNext ==
    \/ \E from_square_str \in FalconSquares, to_square_str \in FalconSquares :
           MakeMove(from_square_str, to_square_str)
    \/ \E piece_symbol \in EntrySymbols, square_str \in FalconEntrySquares :
           EnterFairyPiece(piece_symbol, square_str)

SpecFalcon == Init /\ [][FalconNext]_vars

(***************************************************************************)
(* Games in which black loses the bishop of c8 on h3 and enters a fairy    *)
(* piece on c8 or d7.                                                      *)
(***************************************************************************)
HunterSquares ==
    {Sq("d", 7), Sq("d", 5), Sq("c", 8), Sq("h", 3), Sq("g", 2),
     Sq("g", 1), Sq("f", 3), Sq("d", 6)}

HunterEntrySquares == {Sq("c", 8), Sq("d", 7)}

HunterNext ==
    \/ \E from_square_str \in HunterSquares, to_square_str \in HunterSquares :
           MakeMove(from_square_str, to_square_str)
    \/ \E piece_symbol \in EntrySymbols, square_str \in HunterEntrySquares :
           EnterFairyPiece(piece_symbol, square_str)

SpecHunter == Init /\ [][HunterNext]_vars

(***************************************************************************)
(* Games in which white's rook, bishop, queen and king of the king's side  *)
(* move, after the pawn of e2 and the knight of g1 have made room.         *)
(***************************************************************************)
LineSquares ==
    {Sq("e", 2), Sq("e", 4), Sq("e", 1), Sq("d", 1), Sq("f", 1), Sq("c", 4),
     Sq("f", 3), Sq("h", 1), Sq("g", 1), Sq("g", 8), Sq("f", 6)}

\* a make_move call of a game of at most MaxLineMoves successful calls
LineMove(from_square_str, to_square_str) ==
    /\ moves < MaxLineMoves
    /\ MakeMove(from_square_str, to_square_str)

LineNext ==
    \E from_square_str \in LineSquares, to_square_str \in LineSquares :
        LineMove(from_square_str, to_square_str)

SpecLines == Init /\ [][LineNext]_vars

(***************************************************************************)
(* Games of the knights of b1 and g8, in which a white piece of a major    *)
(* kind can come into white's captured list.                               *)
(***************************************************************************)
CountSquares ==
    {Sq("b", 1), Sq("d", 2), Sq("f", 1), Sq("e", 4), Sq("g", 8), Sq("f", 6)}

CountEntrySquares == {Sq("g", 8), Sq("b", 1), Sq("f", 6)}

CountNext ==
    \/ \E from_square_str \in CountSquares, to_square_str \in CountSquares :
           MakeMove(from_square_str, to_square_str)
    \/ \E piece_symbol \in EntrySymbols, square_str \in CountEntrySquares :
           EnterFairyPiece(piece_symbol, square_str)

SpecCount == Init /\ [][CountNext]_vars

(***************************************************************************)
(* Vocabulary of the properties.  A step of Next is one call: last' is the *)
(* call and its result, the unprimed variables are the game before it.     *)
(***************************************************************************)
\* a column letter 'a'-'h' followed by a row digit '1'-'8'
WellFormed(square_str) == square_str[1] \in DOMAIN col_dict /\ square_str[2] \in 1 .. 8

\* the (row, column) a well-formed square string denotes
SquareOf(square_str) == <<square_str[2] - 1, col_dict[square_str[1]]>>

MajorKinds == {"Knight", "Rook", "Bishop", "Queen"}

\* the number of knight, rook, bishop and queen entries of a captured list
MajorEntries(list) == Cardinality({k \in 1 .. Len(list) : list[k].type \in MajorKinds})

IsMove(call) == call.op = "make_move" /\ WellFormed(call.from) /\ WellFormed(call.to)

IsEntry(call) == call.op = "enter_fairy_piece" /\ WellFormed(call.to)

Won == game_state \in {"WHITE_WON", "BLACK_WON"}

WonBy(color) == IF color = "white" THEN "WHITE_WON" ELSE "BLACK_WON"

(***************************************************************************)
(* C1.  For every piece kind other than pawn, make_move onto a destination *)
(* occupied by a piece of the mover's own colour returns False and changes *)
(* nothing, whatever the shape of the move.                                *)
(***************************************************************************)
C1_OwnColourDestinationRejected ==
    [][(/\ IsMove(last')
        /\ board[SquareOf(last'.from)] # None
        /\ board[SquareOf(last'.from)].type # "Pawn"
        /\ board[SquareOf(last'.to)].color = board[SquareOf(last'.from)].color)
       => (last'.ret = "False" /\ UNCHANGED gvars)]_vars

(***************************************************************************)
(* C2.  Once the game state is WHITE_WON or BLACK_WON, every later         *)
(* make_move call and every later enter_fairy_piece call returns False,    *)
(* and the board, the captured lists, the reserves, the entered counts and *)
(* the turn no longer change.                                              *)
(***************************************************************************)
C2_NothingSucceedsAfterWin ==
    [][Won => (last'.ret = "False" /\ UNCHANGED gvars)]_vars

(***************************************************************************)
(* C3.  A make_move that captures a king sets the game state to the        *)
(* mover's colour _WON in that call, and the capturing piece is relocated; *)
(* the game state leaves UNFINISHED in no other way; once it is WHITE_WON  *)
(* or BLACK_WON it never changes again.                                    *)
(***************************************************************************)
CapturesKing ==
    /\ IsMove(last')
    /\ last'.ret = "True"
    /\ board[SquareOf(last'.to)].type = "King"

C3_KingCaptureEndsGame ==
    [][/\ CapturesKing =>
            /\ game_state' = WonBy(curr_player)
            /\ board'[SquareOf(last'.to)] = board[SquareOf(last'.from)]
            /\ board'[SquareOf(last'.from)] = None
       /\ (game_state = "UNFINISHED" /\ game_state' # "UNFINISHED") => CapturesKing
       /\ Won => game_state' = game_state]_vars

\* the move last made captured the opponent's king, and the mover has won
C3_Witness ==
    /\ IsMove(last)
    /\ last.ret = "True"
    /\ game_state = WonBy(Other(curr_player))
    /\ Len(captured[Other(curr_player)]) > 0
    /\ captured[Other(curr_player)][Len(captured[Other(curr_player)])]
           = Piece("King", curr_player)
    /\ board[SquareOf(last.to)].color = Other(curr_player)

(***************************************************************************)
(* C4.  White is to move in the initial state; the colour to move flips on *)
(* every make_move or enter_fairy_piece call that returns True and is      *)
(* unchanged by every call that returns False.                             *)
(***************************************************************************)
C4_TurnAlternates ==
    /\ curr_player = "white"
    /\ [][/\ last'.ret = "True" => curr_player' = Other(curr_player)
          /\ last'.ret = "False" => curr_player' = curr_player]_vars

\* black has just entered a fairy piece and it is white's turn again
C4_Witness ==
    /\ IsEntry(last)
    /\ last.ret = "True"
    /\ last.symbol \in {"h", "f"}
    /\ curr_player = "white"
    /\ moves % 2 = 0

(***************************************************************************)
(* C5.  A make_move or enter_fairy_piece call that returns False leaves    *)
(* the board, both captured lists, both reserves and entered counts, the   *)
(* game state and the turn exactly as they were.                           *)
(***************************************************************************)
C5_RejectedCallChangesNothing ==
    [][last'.ret = "False" => UNCHANGED gvars]_vars

\* white's entry was rejected by its last test only: the kind is in reserve and
\* enough major pieces are captured, but the square is occupied or not in rows 0-1
C5_Witness ==
    /\ IsEntry(last)
    /\ last.ret = "False"
    /\ curr_player = "white"
    /\ last.symbol = "H"
    /\ in_list("h", fairy_pieces["white"])
    /\ MajorEntries(captured["black"]) > fairy_played_count["white"]
    /\ (board[SquareOf(last.to)] # None \/ SquareOf(last.to)[1] > 1)

(***************************************************************************)
(* C6.  make_move returns False whenever the source square is empty or     *)
(* holds a piece whose colour is not the colour to move; no call puts a    *)
(* piece of the colour that is not to move on a square.                    *)
(***************************************************************************)
C6_OnlyOwnPieceMoves ==
    [][/\ (/\ IsMove(last')
           /\ \/ board[SquareOf(last'.from)] = None
              \/ board[SquareOf(last'.from)].color # curr_player)
          => last'.ret = "False"
       /\ (IsMove(last') /\ last'.ret = "True")
          => /\ board[SquareOf(last'.from)].color = curr_player
             /\ board'[SquareOf(last'.to)] = board[SquareOf(last'.from)]
       /\ board' # board
          => \A sq \in Squares :
                 (board'[sq] # board[sq] /\ board'[sq] # None)
                 => board'[sq].color = curr_player]_vars

\* a knight move of the colour that is not to move, of the right shape and onto an
\* empty square, in an unfinished game: it was rejected
C6_Witness ==
    /\ IsMove(last)
    /\ last.ret = "False"
    /\ game_state = "UNFINISHED"
    /\ board[SquareOf(last.from)].type = "Knight"
    /\ board[SquareOf(last.from)].color # curr_player
    /\ Knight_valid_move(SquareOf(last.from), SquareOf(last.to)) = "True"
    /\ board[SquareOf(last.to)] = None

(***************************************************************************)
(* C7.  As claimed: if white has captured no major piece (knight, rook,    *)
(* bishop, queen) from black, white's request to enter a Hunter on an      *)
(* empty square of rows 0-1 is rejected; in a state where white has        *)
(* captured one black knight and has entered no fairy piece, the identical *)
(* request made on white's turn succeeds.                                  *)
(***************************************************************************)
\* the call is a request for a white Hunter on an empty square of rows 0-1
HunterRequest ==
    /\ IsEntry(last')
    /\ last'.symbol = "H"
    /\ SquareOf(last'.to)[1] \in {0, 1}
    /\ board[SquareOf(last'.to)] = None

\* the second half of the claim, in the state its scenario describes: the one
\* capture of the game so far is white's capture of a black knight
C7_Claimed_WhiteCapturesUnlockWhite ==
    [][(/\ HunterRequest
        /\ curr_player = "white"
        /\ captured["white"] = <<Piece("Knight", "black")>>
        /\ captured["black"] = <<>>
        /\ fairy_played_count["white"] = 0)
       => last'.ret = "True"]_vars

(***************************************************************************)
(* C7, amended.  If black's captured list holds no major piece (knight,    *)
(* rook, bishop, queen), white's request to enter a Hunter on an empty     *)
(* square of rows 0-1 is rejected; in a state where black's captured list  *)
(* holds a knight and white has entered no fairy piece, the identical      *)
(* request made on white's turn succeeds.                                  *)
(***************************************************************************)
C7_LossesUnlockWhite ==
    [][/\ (HunterRequest /\ MajorEntries(captured["black"]) = 0)
          => last'.ret = "False"
       /\ (/\ HunterRequest
           /\ curr_player = "white"
           /\ \E k \in 1 .. Len(captured["black"]) : captured["black"][k].type = "Knight"
           /\ fairy_played_count["white"] = 0)
          => last'.ret = "True"]_vars

\* black has captured a white knight and nothing else, and white's Hunter has
\* just entered on a square of rows 0-1
C7_Witness ==
    /\ IsEntry(last)
    /\ last.symbol = "H"
    /\ last.ret = "True"
    /\ captured["black"] = <<Piece("Knight", "white")>>
    /\ captured["white"] = <<>>
    /\ fairy_played_count["white"] = 1
    /\ board[SquareOf(last.to)] = Piece("Hunter", "white")
    /\ SquareOf(last.to)[1] \in {0, 1}

(***************************************************************************)
(* C8.  enter_fairy_piece by the colour to move returns False whenever the *)
(* number of knight, rook, bishop and queen entries in the opponent's      *)
(* captured list is less than or equal to that colour's fairy-entered      *)
(* count, even when the kind is in reserve and the target is an empty      *)
(* square of that colour's two home ranks.                                 *)
(***************************************************************************)
C8_EntryNeedsMoreMajorsThanEntered ==
    [][(/\ last'.op = "enter_fairy_piece"
        /\ MajorEntries(captured[Other(curr_player)]) <= fairy_played_count[curr_player])
       => last'.ret = "False"]_vars

HomeRows(color) == IF color = "white" THEN {0, 1} ELSE {6, 7}

SymbolColor(piece_symbol) == IF piece_symbol \in {"H", "F"} THEN "white" ELSE "black"

\* the player to move has captured a major piece and lost none, and asked for a
\* kind in reserve on an empty square of the home ranks: rejected
C8_Witness ==
    /\ IsEntry(last)
    /\ last.ret = "False"
    /\ SymbolColor(last.symbol) = curr_player
    /\ in_list(lower(last.symbol), fairy_pieces[curr_player])
    /\ SquareOf(last.to)[1] \in HomeRows(curr_player)
    /\ board[SquareOf(last.to)] = None
    /\ fairy_played_count[curr_player] = 0
    /\ MajorEntries(captured[curr_player]) = 1
    /\ MajorEntries(captured[Other(curr_player)]) = 0

(***************************************************************************)
(* C9.  Each colour enters the Hunter at most once and the Falcon at most  *)
(* once: a colour's fairy-entered count equals 2 minus the size of its     *)
(* reserve, never exceeds 2, and never exceeds the number of major-piece   *)
(* entries in the opponent's captured list; at most one Hunter and one     *)
(* Falcon of a colour exist, and a kind that exists has left the reserve.  *)
(***************************************************************************)
\* the pieces of this kind and colour on the board and in the two captured lists
Existing(type, color) ==
    Cardinality({sq \in Squares : board[sq] = Piece(type, color)})
    + Cardinality({k \in 1 .. Len(captured["white"]) :
                      captured["white"][k] = Piece(type, color)})
    + Cardinality({k \in 1 .. Len(captured["black"]) :
                      captured["black"][k] = Piece(type, color)})

C10_EntryOnEmptyHomeSquare ==
    [][/\ (IsEntry(last') /\ last'.ret = "True")
          => /\ board[SquareOf(last'.to)] = None
             /\ SquareOf(last'.to)[1] \in HomeRows(curr_player)
             /\ board'[SquareOf(last'.to)].color = curr_player
             /\ board'[SquareOf(last'.to)].type \in {"Hunter", "Falcon"}
       /\ (last'.op = "enter_fairy_piece" /\ SymbolColor(last'.symbol) # curr_player)
          => last'.ret = "False"]_vars

\* white's Falcon has just entered on a square of rows 0-1
C10_Witness ==
    /\ IsEntry(last)
    /\ last.symbol = "F"
    /\ last.ret = "True"
    /\ curr_player = "black"
    /\ board[SquareOf(last.to)] = Piece("Falcon", "white")
    /\ SquareOf(last.to)[1] \in {0, 1}

(***************************************************************************)
(* Vocabulary of the moves: the piece the call moves, what stands on the   *)
(* destination, the displacement in rows and columns.                      *)
(***************************************************************************)
Mover == board[SquareOf(last'.from)]

Target == board[SquareOf(last'.to)]

drow == SquareOf(last'.to)[1] - SquareOf(last'.from)[1]

dcol == SquareOf(last'.to)[2] - SquareOf(last'.from)[2]

\* the row direction in which a colour's pieces advance
Forward(color) == IF color = "white" THEN 1 ELSE -1

StartRank(color) == IF color = "white" THEN 1 ELSE 6

Rejected == last'.ret = "False" /\ UNCHANGED gvars

\* the call moves the piece from its square to the destination and passes the turn
Relocated ==
    /\ last'.ret = "True"
    /\ board'[SquareOf(last'.to)] = Mover
    /\ board'[SquareOf(last'.from)] = None
    /\ curr_player' = Other(curr_player)

\* the same displacement, read on the state after the call
lastdrow == SquareOf(last.to)[1] - SquareOf(last.from)[1]

lastdcol == SquareOf(last.to)[2] - SquareOf(last.from)[2]

(***************************************************************************)
(* C11.  A pawn move straight forward, one or two steps, onto an occupied  *)
(* square is rejected; a pawn move one step diagonally forward onto an     *)
(* empty square or onto a piece of the pawn's own colour is rejected; a    *)
(* one-step diagonal forward move of a pawn of the colour to move, in an   *)
(* unfinished game, onto an opponent piece is accepted and puts that piece *)
(* in the mover's captured list.                                           *)
(***************************************************************************)
C11_PawnCapturesOnlyDiagonally ==
    [][(IsMove(last') /\ Mover.type = "Pawn") =>
        /\ (dcol = 0 /\ drow \in {Forward(Mover.color), 2 * Forward(Mover.color)}
                /\ Target # None)
           => Rejected
        /\ (abs(dcol) = 1 /\ drow = Forward(Mover.color)
                /\ (Target = None \/ Target.color = Mover.color))
           => Rejected
        /\ (abs(dcol) = 1 /\ drow = Forward(Mover.color)
                /\ Target # None /\ Target.color # Mover.color
                /\ Mover.color = curr_player /\ game_state = "UNFINISHED")
           => /\ Relocated
              /\ captured' = [captured EXCEPT ![curr_player] = Append(@, Target)]]_vars

\* a pawn has just captured an opponent pawn by a one-step diagonal move
C11_Witness ==
    /\ IsMove(last)
    /\ last.ret = "True"
    /\ abs(lastdcol) = 1
    /\ board[SquareOf(last.to)] = Piece("Pawn", Other(curr_player))
    /\ lastdrow = Forward(Other(curr_player))
    /\ Len(captured[Other(curr_player)]) > 0
    /\ captured[Other(curr_player)][Len(captured[Other(curr_player)])]
           = Piece("Pawn", curr_player)

(***************************************************************************)
(* C12.  For a pawn of the colour to move in an unfinished game, the       *)
(* two-step forward move is accepted if and only if the pawn stands on its *)
(* colour's starting rank (row 1 for white, row 6 for black) and both the  *)
(* intervening square and the destination square are empty; a pawn move    *)
(* that is backward, sideways, or longer than two rows is always rejected. *)
(***************************************************************************)
\* the square a two-step move passes over
Intervening == <<SquareOf(last'.from)[1] + Forward(Mover.color), SquareOf(last'.from)[2]>>

OnlyTheseTwo(g, from_square, to_square) ==
    [NewGame EXCEPT
        !.board = [sq \in Squares |->
                      IF sq \in {from_square, to_square} THEN g.board[sq] ELSE None],
        !.curr_player = g.curr_player,
        !.game_state = g.game_state]

KnightShape == {abs(drow), abs(dcol)} = {1, 2}

C13_KnightIgnoresOtherSquares ==
    [][(IsMove(last') /\ Mover.type = "Knight" /\ KnightShape) =>
        last'.ret = make_move(OnlyTheseTwo(Game, SquareOf(last'.from), SquareOf(last'.to)),
                              last'.from, last'.to).ret]_vars

\* the knight of g1 has just moved to f3 over the pawns of f2 and g2
C13_Witness ==
    /\ IsMove(last)
    /\ last.ret = "True"
    /\ last.from = Sq("g", 1)
    /\ last.to = Sq("f", 3)
    /\ board[SquareOf(last.to)] = Piece("Knight", "white")
    /\ board[<<1, 5>>] = Piece("Pawn", "white")
    /\ board[<<1, 6>>] = Piece("Pawn", "white")

(***************************************************************************)
(* C14.  For a rook, bishop, queen, king, Falcon or Hunter, make_move is   *)
(* rejected whenever at least one cell strictly between source and         *)
(* destination on the straight or diagonal line is occupied, by a piece of *)
(* either colour.                                                          *)
(***************************************************************************)
SlidingKinds == {"Rook", "Bishop", "Queen", "King", "Falcon", "Hunter"}

sgn(x) == IF x > 0 THEN 1 ELSE IF x < 0 THEN -1 ELSE 0

\* the two squares differ and lie on one row, one column or one diagonal
OnLine(from_square, to_square) ==
    /\ from_square # to_square
    /\ \/ from_square[1] = to_square[1]
       \/ from_square[2] = to_square[2]
       \/ abs(to_square[1] - from_square[1]) = abs(to_square[2] - from_square[2])

\* the cells strictly between two squares of one line
Between(from_square, to_square) ==
    LET steps == IF from_square[1] = to_square[1]
                 THEN abs(to_square[2] - from_square[2])
                 ELSE abs(to_square[1] - from_square[1])
    IN  {<<from_square[1] + k * sgn(to_square[1] - from_square[1]),
           from_square[2] + k * sgn(to_square[2] - from_square[2])>> : k \in 1 .. (steps - 1)}

PathClear(from_square, to_square) ==
    \A sq \in Between(from_square, to_square) : board[sq] = None

C14_OccupiedPathRejected ==
    [][(/\ IsMove(last')
        /\ Mover.type \in SlidingKinds
        /\ OnLine(SquareOf(last'.from), SquareOf(last'.to))
        /\ ~PathClear(SquareOf(last'.from), SquareOf(last'.to)))
       => Rejected]_vars

\* a queen of the colour to move, in an unfinished game, asked for a move of her
\* shape onto an empty square with a piece in between: rejected
C14_Witness ==
    /\ IsMove(last)
    /\ last.ret = "False"
    /\ game_state = "UNFINISHED"
    /\ board[SquareOf(last.from)] = Piece("Queen", curr_player)
    /\ OnLine(SquareOf(last.from), SquareOf(last.to))
    /\ board[SquareOf(last.to)] = None
    /\ ~PathClear(SquareOf(last.from), SquareOf(last.to))

(***************************************************************************)
(* C15.  A make_move or enter_fairy_piece call in which any square token   *)
(* has a row digit outside '1'-'8' or a column letter outside 'a'-'h'      *)
(* (source token as well as destination token) never succeeds and never    *)
(* changes the game state.                                                 *)
(***************************************************************************)
\* a square token of the call is not well-formed
Malformed(call) ==
    \/ call.op = "make_move" /\ (~WellFormed(call.from) \/ ~WellFormed(call.to))
    \/ call.op = "enter_fairy_piece" /\ ~WellFormed(call.to)

C15_MalformedTokenNeverSucceeds ==
    [][Malformed(last') => (last'.ret # "True" /\ UNCHANGED gvars)]_vars

(***************************************************************************)
(* C16.  A Hunter of either colour moves forward like a rook and backward  *)
(* like a bishop: for a Hunter of the colour to move in an unfinished      *)
(* game, with a clear path and a destination that is empty or              *)
(* opponent-occupied, a forward move along its column is accepted and a    *)
(* backward diagonal move is accepted, for white (forward = increasing     *)
(* row) and for black (forward = decreasing row) alike.                    *)
(***************************************************************************)
\* the call moves a piece of this kind and of the colour to move, in an unfinished
\* game, along a clear path onto a square that is empty or holds an opponent piece
FreeMoveOf(type) ==
    /\ IsMove(last')
    /\ Mover = Piece(type, curr_player)
    /\ game_state = "UNFINISHED"
    /\ OnLine(SquareOf(last'.from), SquareOf(last'.to))
    /\ PathClear(SquareOf(last'.from), SquareOf(last'.to))
    /\ (Target = None \/ Target.color # curr_player)

ForwardOnColumn == dcol = 0 /\ drow * Forward(curr_player) > 0

BackwardOnColumn == dcol = 0 /\ drow * Forward(curr_player) < 0

ForwardDiagonal == abs(drow) = abs(dcol) /\ drow * Forward(curr_player) > 0

BackwardDiagonal == abs(drow) = abs(dcol) /\ drow * Forward(curr_player) < 0

C16_HunterForwardRookBackwardBishop ==
    [][(FreeMoveOf("Hunter") /\ (ForwardOnColumn \/ BackwardDiagonal))
       => last'.ret = "True"]_vars

(***************************************************************************)
(* C17.  A Falcon of either colour moves forward like a bishop and         *)
(* backward like a rook: for a Falcon of the colour to move in an          *)
(* unfinished game, with a clear path and a destination that is empty or   *)
(* opponent-occupied, a forward diagonal move is accepted and a backward   *)
(* move straight along its column is accepted, for white (backward =       *)
(* decreasing row) and for black (backward = increasing row) alike.        *)
(***************************************************************************)
C17_FalconForwardBishopBackwardRook ==
    [][(FreeMoveOf("Falcon") /\ (ForwardDiagonal \/ BackwardOnColumn))
       => last'.ret = "True"]_vars

(***************************************************************************)
(* C18.  Each player's captured list contains only pieces of the opposite  *)
(* colour, its entries appear in the order in which that player captured   *)
(* them, and every capture appends the captured piece to the list of the   *)
(* player who made the move.                                               *)
(***************************************************************************)
C18_CapturedListsHoldOpponentPiecesInOrder ==
    [][/\ \A color \in Colors :
            \A k \in 1 .. Len(captured'[color]) :
                captured'[color][k].color = Other(color)
       /\ \A color \in Colors :
            \/ captured'[color] = captured[color]
            \/ /\ color = curr_player
               /\ IsMove(last')
               /\ last'.ret = "True"
               /\ captured'[color] = Append(captured[color], Target)
       /\ (IsMove(last') /\ last'.ret = "True" /\ Target # None)
          => captured'[curr_player] = Append(captured[curr_player], Target)]_vars

(***************************************************************************)
(* C19.  In every reachable state the game state is UNFINISHED if and only *)
(* if exactly one white king and exactly one black king are on the board;  *)
(* no operation ever creates a second king, and a king leaves the board    *)
(* only by being captured: each colour's king is on the board, once, or in *)
(* a captured list, once.                                                  *)
(***************************************************************************)
KingsOnBoard(color) == Cardinality({sq \in Squares : board[sq] = Piece("King", color)})

C19_UnfinishedIffBothKingsOnBoard ==
    /\ game_state = "UNFINISHED"
           <=> (KingsOnBoard("white") = 1 /\ KingsOnBoard("black") = 1)
    /\ \A color \in Colors :
           /\ KingsOnBoard(color) <= 1
           /\ Existing("King", color) = 1

\* white has won: the black king is off the board and in white's captured list
C19_Witness ==
    /\ game_state = "WHITE_WON"
    /\ KingsOnBoard("black") = 0
    /\ KingsOnBoard("white") = 1
    /\ in_list(Piece("King", "black"), captured["white"])

(***************************************************************************)
(* C20.  For a rook, bishop, queen or king of the colour to move in an     *)
(* unfinished game, make_move with well-formed squares succeeds if and     *)
(* only if the displacement is nonzero and matches the kind's shape (rook: *)
(* same row or same column; bishop: |drow| = |dcol|; queen: either; king:  *)
(* |drow| <= 1 and |dcol| <= 1), every cell strictly between source and    *)
(* destination is empty, and the destination is not occupied by an         *)
(* own-colour piece; a move with source equal to destination is rejected.  *)
(***************************************************************************)
RookShape == (drow = 0 /\ dcol # 0) \/ (drow # 0 /\ dcol = 0)

BishopShape == abs(drow) = abs(dcol) /\ drow # 0

KingShape == abs(drow) <= 1 /\ abs(dcol) <= 1 /\ (drow # 0 \/ dcol # 0)

Shape(type) ==
    CASE type = "Rook" -> RookShape
      [] type = "Bishop" -> BishopShape
      [] type = "Queen" -> RookShape \/ BishopShape
      [] type = "King" -> KingShape

C20_LinePieceMovesExactlyItsShape ==
    [][(/\ IsMove(last')
        /\ Mover.type \in {"Rook", "Bishop", "Queen", "King"}
        /\ Mover.color = curr_player
        /\ game_state = "UNFINISHED")
       => /\ last'.ret = "True"
                <=> /\ Shape(Mover.type)
                    /\ PathClear(SquareOf(last'.from), SquareOf(last'.to))
                    /\ ~(Target # None /\ Target.color = curr_player)
          /\ last'.from = last'.to => Rejected]_vars

\* white's bishop has just moved from f1 to c4 over the empty squares e2 and d3
C20_Witness ==
    /\ IsMove(last)
    /\ last.ret = "True"
    /\ last.from = Sq("f", 1)
    /\ last.to = Sq("c", 4)
    /\ board[SquareOf(last.to)] = Piece("Bishop", "white")
    /\ board[SquareOf(last.from)] = None
    /\ curr_player = "black"

(***************************************************************************)
(* C21.  In an unfinished game, for white and for black alike,             *)
(* enter_fairy_piece with the mover's symbol case, a kind still in the     *)
(* mover's reserve and an empty target in the mover's home ranks succeeds  *)
(* whenever the number of entries of kind knight, rook, bishop or queen in *)
(* the opponent's captured list strictly exceeds the mover's entered       *)
(* count: every entry of those kinds counts, for both colours alike.       *)
(***************************************************************************)
C21_EveryMajorEntryCounts ==
    [][(/\ IsEntry(last')
        /\ game_state = "UNFINISHED"
        /\ SymbolColor(last'.symbol) = curr_player
        /\ in_list(lower(last'.symbol), fairy_pieces[curr_player])
        /\ SquareOf(last'.to)[1] \in HomeRows(curr_player)
        /\ board[SquareOf(last'.to)] = None
        /\ MajorEntries(captured[Other(curr_player)]) > fairy_played_count[curr_player])
       => last'.ret = "True"]_vars

(***************************************************************************)
(* C22.  A successful make_move changes only: the source cell (becomes     *)
(* empty), the destination cell (now holds the moved piece, same kind and  *)
(* colour), the turn, and on a capture the mover's captured list (gains    *)
(* exactly the piece that stood on the destination) and the game state if  *)
(* that piece was a king; every other cell, the other player's captured    *)
(* list, and both players' reserves and entered counts are unchanged.      *)
(***************************************************************************)
C22_MoveFrame ==
    [][(IsMove(last') /\ last'.ret = "True") =>
        /\ board' = [board EXCEPT ![SquareOf(last'.to)] = Mover,
                                  ![SquareOf(last'.from)] = None]
        /\ curr_player' = Other(curr_player)
        /\ captured' = IF Target = None THEN captured
                       ELSE [captured EXCEPT ![curr_player] = Append(@, Target)]
        /\ game_state' = IF Target.type = "King" THEN WonBy(curr_player) ELSE game_state
        /\ UNCHANGED <<fairy_pieces, fairy_played_count>>]_vars

\* a white knight has just taken a black knight, white's first capture: the game
\* goes on and black is to move
C22_Witness ==
    /\ IsMove(last)
    /\ last.ret = "True"
    /\ board[SquareOf(last.to)] = Piece("Knight", "white")
    /\ board[SquareOf(last.from)] = None
    /\ captured["white"] = <<Piece("Knight", "black")>>
    /\ game_state = "UNFINISHED"
    /\ curr_player = "black"

(***************************************************************************)
(* C23.  A successful enter_fairy_piece changes only the target cell, the  *)
(* mover's reserve (the entered kind is removed), the mover's entered      *)
(* count (incremented by one) and the turn; every other cell, both         *)
(* captured lists, the opponent's reserve and entered count, and the game  *)
(* state are unchanged, and no move is made in the same turn.              *)
(***************************************************************************)
EnteredKind == IF lower(last'.symbol) = "h" THEN "Hunter" ELSE "Falcon"

C23_EntryFrame ==
    [][(IsEntry(last') /\ last'.ret = "True") =>
        /\ board' = [board EXCEPT ![SquareOf(last'.to)] = Piece(EnteredKind, curr_player)]
        /\ fairy_pieces' = [fairy_pieces EXCEPT
                                ![curr_player] = list_remove(@, lower(last'.symbol))]
        /\ ~in_list(lower(last'.symbol), fairy_pieces'[curr_player])
        /\ fairy_played_count' = [fairy_played_count EXCEPT ![curr_player] = @ + 1]
        /\ curr_player' = Other(curr_player)
        /\ UNCHANGED <<captured, game_state>>]_vars

\* black's Hunter has just entered on a square of rows 6-7: the Falcon alone is
\* left in black's reserve, white's reserve is whole
C23_Witness ==
    /\ IsEntry(last)
    /\ last.symbol = "h"
    /\ last.ret = "True"
    /\ board[SquareOf(last.to)] = Piece("Hunter", "black")
    /\ fairy_pieces["black"] = <<"f">>
    /\ fairy_played_count["black"] = 1
    /\ fairy_pieces["white"] = InitFairyPieces
    /\ curr_player = "white"

(***************************************************************************)
(* C24.  The movement rules are colour-symmetric: for every piece kind, a  *)
(* piece's move from (r,c) to (r',c') is accepted in a position exactly    *)
(* when the same kind of piece of the other colour's move from (7-r,c) to  *)
(* (7-r',c') is accepted in the row-mirrored, colour-swapped position with *)
(* the other colour to move.                                               *)
(***************************************************************************)
SwapColor(piece) == IF piece = None THEN None ELSE Piece(piece.type, Other(piece.color))

MirrorSquare(sq) == <<7 - sq[1], sq[2]>>

\* the square string of the mirrored square: "d7" for "d2"
MirrorString(square_str) == Sq(square_str[1], 9 - square_str[2])

SwapList(list) == [k \in 1 .. Len(list) |-> SwapColor(list[k])]

\* the row-mirrored, colour-swapped game
Mirror(g) ==
    [board |-> [sq \in Squares |-> SwapColor(g.board[MirrorSquare(sq)])],
     game_state |-> IF g.game_state = "UNFINISHED" THEN "UNFINISHED"
                    ELSE IF g.game_state = "WHITE_WON" THEN "BLACK_WON" ELSE "WHITE_WON",
     captured |-> [c \in Colors |-> SwapList(g.captured[Other(c)])],
     fairy_pieces |-> [c \in Colors |-> g.fairy_pieces[Other(c)]],
     fairy_played_count |-> [c \in Colors |-> g.fairy_played_count[Other(c)]],
     curr_player |-> Other(g.curr_player)]

C24_MovementColourSymmetric ==
    [][(IsMove(last') /\ Mover # None) =>
        last'.ret = make_move(Mirror(Game), MirrorString(last'.from),
                              MirrorString(last'.to)).ret]_vars

(***************************************************************************)
(* C25.  If the game state is WHITE_WON then the black king is in white's  *)
(* captured list and the white king is still on the board; symmetrically,  *)
(* if it is BLACK_WON then the white king is in black's captured list and  *)
(* the black king is still on the board.                                   *)
(***************************************************************************)
C25_WinnerHoldsLosersKing ==
    \A color \in Colors :
        game_state = WonBy(color)
        => /\ in_list(Piece("King", Other(color)), captured[color])
           /\ KingsOnBoard(color) = 1

(***************************************************************************)
(* C26.  In every reachable state each piece ever created is in exactly    *)
(* one place, on a cell or in a captured list: the number of pieces on the *)
(* board plus the lengths of both captured lists equals 32 plus the two    *)
(* fairy-entered counts; no operation loses or duplicates a piece, and a   *)
(* piece's kind and colour never change: of every kind and colour there    *)
(* are as many pieces as were created.                                     *)
(***************************************************************************)
PiecesOnBoard == Cardinality({sq \in Squares : board[sq] # None})

\* the pieces of a kind that Board.__init__ creates for each colour
CreatedAtStart(type) ==
    Cardinality({sq \in Squares : InitBoard[sq] = Piece(type, "white")})

C26_PiecesConserved ==
    /\ PiecesOnBoard + Len(captured["white"]) + Len(captured["black"])
           = Cardinality({sq \in Squares : InitBoard[sq] # None})
             + fairy_played_count["white"] + fairy_played_count["black"]
    /\ \A color \in Colors :
           /\ \A type \in {"Pawn", "Rook", "Knight", "Bishop", "Queen", "King"} :
                  Existing(type, color) = CreatedAtStart(type)
           /\ Existing("Hunter", color) + Existing("Falcon", color)
                  = fairy_played_count[color]

\* both players have captured and one fairy piece has entered: 33 pieces are on
\* the board and in the two lists
C26_Witness ==
    /\ Len(captured["white"]) > 0
    /\ Len(captured["black"]) > 0
    /\ fairy_played_count["white"] + fairy_played_count["black"] = 1
    /\ PiecesOnBoard = 33 - Len(captured["white"]) - Len(captured["black"])

====
